---- MODULE Spec2Model ----
(***************************************************************************)
(* A model of the LPL-MCP repository: the user-management service          *)
(* (WebServer/web_server.py and WebServer/web_server_enhanced.py) and the  *)
(* inventory service (WebService/inventory_api.py).                        *)
(*                                                                         *)
(* Optional[T] values are sequences of length at most one: <<>> is None    *)
(* and <<v>> is the value v.  A dict is the sequence of its items in       *)
(* insertion order, each item a record [key, val].                         *)
(***************************************************************************)
EXTENDS Integers, Sequences, FiniteSets, TLC

VARIABLES
    server,        \* which module serves: "web_server" or "web_server_enhanced"
    users_db,      \* the module global users_db: Dict[int, User]
    user_counter,  \* the module global user_counter
    now,           \* the clock that datetime.utcnow() reads (logical time)
    resp,          \* the response to the last request
    issued,        \* history: the ids of the 201 responses of create_user, in order
    deleted,       \* history: the ids whose delete_user returned 204
    inv_heap,      \* inventory_api: the list objects that users_db has named, by identity
    inv_users_db,  \* inventory_api: the list object the module global users_db names
    inv_thread,    \* inventory_api: what each worker thread is doing
    inv_started,   \* inventory_api: the number of requests taken up so far
    inventory_db,  \* inventory_api: the module global inventory_db: List[InventoryItem]
    inv_resp,      \* inventory_api: the last response to an /inventory request
    item_thread,   \* inventory_api: what each worker thread is doing in add_inventory
    e_users_db,    \* web_server_enhanced run beside web_server: its users_db
    e_user_counter,\* web_server_enhanced run beside web_server: its user_counter
    e_resp,        \* web_server_enhanced run beside web_server: its last response
    t_pc,          \* test_server: the step run_all_tests is at
    tests_passed,  \* test_server: the local tests_passed of run_all_tests
    t_user_id,     \* test_server: the local user_id of run_all_tests
    t_outcome,     \* test_server, history: how each step of run_all_tests went
    success,       \* test_server: what run_all_tests returned
    exit_code      \* test_server: the status the script exited with

\* the state of the user-management service
uvars == <<server, users_db, user_counter, now, resp, issued, deleted>>

\* the state of the inventory service
ivars == <<inv_heap, inv_users_db, inv_thread, inv_started>>

\* the inventory items of the inventory service
svars == <<inventory_db, inv_resp, item_thread>>

\* the second server of a pair that is given the same requests
evars == <<e_users_db, e_user_counter, e_resp>>

\* the state of the smoke-test script
tvars == <<t_pc, tests_passed, t_user_id, t_outcome, success, exit_code>>

vars == <<uvars, ivars, svars, evars, tvars>>

----------------------------------------------------------------------------
(* Bounds of the model. *)

\* create_user is explored while the counter it leaves is at most MaxCounter
MaxCounter == 3
\* the clock ticks up to MaxTime
MaxTime == 1
\* skip ranges over -2..MaxSkip and limit over -1..MaxLimit (and the cap values)
MaxSkip == 2
MaxLimit == 2
\* the inventory service takes up at most MaxRequests requests
MaxRequests == 3
\* add_inventory is taken up while fewer than MaxItems items are stored or about to be
MaxItems == 3

----------------------------------------------------------------------------
(* Program constants. *)

\* total_tests of run_all_tests
total_tests == 7
NameMinLength == 1
NameMaxLength == 100
AgeMin == 0
AgeMax == 150
LimitMin == 1
LimitMax == 1000

Basic == "web_server"
Enhanced == "web_server_enhanced"
Servers == {Basic, Enhanced}

----------------------------------------------------------------------------
(* Python's dict, as the sequence of its items in insertion order. *)

DictHas(d, k) == \E i \in 1..Len(d) : d[i].key = k

DictGet(d, k) == d[CHOOSE i \in 1..Len(d) : d[i].key = k].val

\* DictSet as it would be if an assignment dropped the key and inserted it again
DictSet_MoveToEnd(d, k, v) ==
    Append(SelectSeq(d, LAMBDA e : e.key # k), [key |-> k, val |-> v])

\* d[k] = v: an existing key keeps its place, a new key goes last
DictSet(d, k, v) ==
    IF DictHas(d, k)
    THEN [i \in 1..Len(d) |-> IF d[i].key = k THEN [key |-> k, val |-> v] ELSE d[i]]
    ELSE Append(d, [key |-> k, val |-> v])

\* del d[k]
DictDel(d, k) == SelectSeq(d, LAMBDA e : e.key # k)

\* list(d.values())
DictValues(d) == [i \in 1..Len(d) |-> d[i].val]

DictKeys(d) == {d[i].key : i \in 1..Len(d)}

Min(a, b) == IF a < b THEN a ELSE b
Max(a, b) == IF a > b THEN a ELSE b

\* one bound of a slice, as PySlice_AdjustIndices clamps it for step 1
SliceIndex(i, n) == IF i < 0 THEN Max(i + n, 0) ELSE Min(i, n)

\* s[start:stop]
PySlice(s, start, stop) ==
    LET lo == SliceIndex(start, Len(s))
        hi == SliceIndex(stop, Len(s))
    IN  IF lo < hi THEN SubSeq(s, lo + 1, hi) ELSE <<>>

----------------------------------------------------------------------------
(* Request bodies and pydantic validation of class User. *)

LongName ==
    "AAAAAAAAAAAAAAAAAAAAAAAAAAAAAAAAAAAAAAAAAAAAAAAAAAAAAAAAAAAAAAAAAAAAAAAAAAAAAAAAAAAAAAAAAAAAAAAAAAAAA"

Emails == {"a@x.com", "b@x.com"}

\* (name, age, is_active) as sent: <<>> is a field the body omits
Profiles ==
    { <<"Al", <<30>>, <<TRUE>> >>,
      <<"Bo", <<>>, <<>> >>,
      <<"Bo", <<30>>, <<FALSE>> >> }

\* profiles that break a Field constraint of User
BadProfiles ==
    { <<"", <<30>>, <<TRUE>> >>,
      <<LongName, <<>>, <<>> >>,
      <<"Al", <<151>>, <<FALSE>> >>,
      <<"Bo", <<-1>>, <<>> >> }

\* the bodies of POST /users and PUT /users/{user_id}; some carry an id of their own
UserBodies ==
    { [id |-> <<>>, name |-> p[1], email |-> e, age |-> p[2], is_active |-> p[3]] :
        p \in Profiles, e \in Emails }
    \cup
    { [id |-> <<2>>, name |-> "Al", email |-> e, age |-> <<30>>, is_active |-> <<TRUE>>] :
        e \in Emails }
    \cup
    { [id |-> <<>>, name |-> p[1], email |-> "a@x.com", age |-> p[2],
       is_active |-> p[3]] : p \in BadProfiles }

\* the Field constraints of User: name min_length/max_length, age ge/le
ValidUserBody(b) ==
    /\ Len(b.name) >= NameMinLength
    /\ Len(b.name) <= NameMaxLength
    /\ b.age # <<>> => (b.age[1] >= AgeMin /\ b.age[1] <= AgeMax)

\* the User that pydantic builds from a valid body: omitted fields take their defaults
ParseUser(b) ==
    [id |-> b.id, name |-> b.name, email |-> b.email, age |-> b.age,
     is_active |-> IF b.is_active = <<>> THEN TRUE ELSE b.is_active[1]]

----------------------------------------------------------------------------
(* Responses. *)

\* what http_exception_handler sends for HTTPException(status_code, detail)
HTTPException(op, code, detail) ==
    [op |-> op, status |-> code, detail |-> detail, body |-> <<>>]

\* FastAPI's answer to a request that fails validation
RequestValidationError(op) ==
    [op |-> op, status |-> 422, detail |-> "validation error", body |-> <<>>]

\* general_exception_handler
InternalServerError(op) ==
    [op |-> op, status |-> 500, detail |-> "Internal server error", body |-> <<>>]

Ok(op, code, body) == [op |-> op, status |-> code, detail |-> "", body |-> body]

\* UserResponse(id=..., name=user.name, ..., created_at=datetime.utcnow())
UserResponse(id, user, t) ==
    [id |-> id, name |-> user.name, email |-> user.email, age |-> user.age,
     is_active |-> user.is_active, created_at |-> t]

\* the id argument of UserResponse in get_user and get_users:
\* user.id (web_server.py), user.id if user.id is not None else -1 (enhanced)
ResponseId(srv, user) ==
    IF user.id # <<>> THEN user.id
    ELSE IF srv = Enhanced THEN <<-1>> ELSE <<>>

----------------------------------------------------------------------------
(* The handlers, as functions of the globals they read, the clock and      *)
(* the request: each yields the globals it leaves and the response.        *)

Result(db, ctr, r) == [db |-> db, counter |-> ctr, resp |-> r]

\* EmailRegistered as it would be if the scan looked at the newest user only
EmailRegistered_LastOnly(db, email) ==
    db # <<>> /\ db[Len(db)].val.email = email

\* for existing_user in users_db.values(): if existing_user.email == user.email
EmailRegistered(db, email) == \E i \in 1..Len(db) : db[i].val.email = email

\* the response a handler builds from one stored user
UserResponseOrError(op, code, id, user, t) ==
    IF id = <<>> THEN InternalServerError(op)
    ELSE Ok(op, code, <<UserResponse(id[1], user, t)>>)

\* create_user as it would be if the counter were advanced before the scan for the email
create_user_CountFirst(srv, db, ctr, t, body) ==
    IF ~ValidUserBody(body) THEN Result(db, ctr, RequestValidationError("create_user"))
    ELSE IF EmailRegistered(db, body.email)
    THEN Result(db, ctr + 1, HTTPException("create_user", 400, "Email already registered"))
    ELSE LET user == [ParseUser(body) EXCEPT !.id = <<ctr>>]
         IN  Result(DictSet(db, ctr, user), ctr + 1,
                    UserResponseOrError("create_user", 201, user.id, user, t))

\* create_user as it would be if the id were taken from the size of users_db
create_user_LenId(srv, db, ctr, t, body) ==
    IF ~ValidUserBody(body) THEN Result(db, ctr, RequestValidationError("create_user"))
    ELSE IF EmailRegistered(db, body.email)
    THEN Result(db, ctr, HTTPException("create_user", 400, "Email already registered"))
    ELSE LET id   == Len(db) + 1
             user == [ParseUser(body) EXCEPT !.id = <<id>>]
         IN  Result(DictSet(db, id, user), ctr + 1,
                    UserResponseOrError("create_user", 201, <<id>>, user, t))

\* create_user as it would be if the counter were incremented before the store
create_user_StoreAfterIncrement(srv, db, ctr, t, body) ==
    IF ~ValidUserBody(body) THEN Result(db, ctr, RequestValidationError("create_user"))
    ELSE IF EmailRegistered(db, body.email)
    THEN Result(db, ctr, HTTPException("create_user", 400, "Email already registered"))
    ELSE LET user == [ParseUser(body) EXCEPT !.id = <<ctr>>]
             ctr2 == ctr + 1
         IN  Result(DictSet(db, ctr2, user), ctr2,
                    UserResponseOrError("create_user", 201, user.id, user, t))

\* create_user as it would be if web_server_enhanced.py answered with user_counter
\* in place of user_counter - 1
create_user_CounterAsId(srv, db, ctr, t, body) ==
    IF ~ValidUserBody(body) THEN Result(db, ctr, RequestValidationError("create_user"))
    ELSE IF EmailRegistered(db, body.email)
    THEN Result(db, ctr, HTTPException("create_user", 400, "Email already registered"))
    ELSE LET user == [ParseUser(body) EXCEPT !.id = <<ctr>>]
             ctr2 == ctr + 1
             id   == IF srv = Enhanced THEN <<ctr2>> ELSE user.id
         IN  Result(DictSet(db, ctr, user), ctr2,
                    UserResponseOrError("create_user", 201, id, user, t))

\* POST /users
create_user(srv, db, ctr, t, body) ==
    IF ~ValidUserBody(body) THEN Result(db, ctr, RequestValidationError("create_user"))
    ELSE IF EmailRegistered(db, body.email)
    THEN Result(db, ctr, HTTPException("create_user", 400, "Email already registered"))
    ELSE LET user == [ParseUser(body) EXCEPT !.id = <<ctr>>]
             ctr2 == ctr + 1
             id   == IF srv = Enhanced THEN <<ctr2 - 1>> ELSE user.id
         IN  Result(DictSet(db, ctr, user), ctr2,
                    UserResponseOrError("create_user", 201, id, user, t))

\* the Query constraints of get_users in web_server_enhanced.py
ValidPage(srv, skip, limit) ==
    srv = Enhanced => (skip >= 0 /\ limit >= LimitMin /\ limit <= LimitMax)

\* GET /users
get_users(srv, db, ctr, t, skip, limit) ==
    IF ~ValidPage(srv, skip, limit)
    THEN Result(db, ctr, RequestValidationError("get_users"))
    ELSE LET users == PySlice(DictValues(db), skip, skip + limit)
         IN  IF \E i \in 1..Len(users) : ResponseId(srv, users[i]) = <<>>
             THEN Result(db, ctr, InternalServerError("get_users"))
             ELSE Result(db, ctr,
                    Ok("get_users", 200,
                       [i \in 1..Len(users) |->
                           UserResponse(ResponseId(srv, users[i])[1], users[i], t)]))

\* the Path constraint (gt=0) on user_id in web_server_enhanced.py
ValidUserId(srv, user_id) == srv = Enhanced => user_id > 0

\* GET /users/{user_id}
get_user(srv, db, ctr, t, user_id) ==
    IF ~ValidUserId(srv, user_id)
    THEN Result(db, ctr, RequestValidationError("get_user"))
    ELSE IF ~DictHas(db, user_id)
    THEN Result(db, ctr, HTTPException("get_user", 404, "User not found"))
    ELSE LET user == DictGet(db, user_id)
         IN  Result(db, ctr,
                    UserResponseOrError("get_user", 200, ResponseId(srv, user), user, t))

\* EmailConflict as it would be if the scan compared ids with == instead of !=
EmailConflict_SameId(db, user_id, email) ==
    /\ email # DictGet(db, user_id).email
    /\ \E i \in 1..Len(db) : db[i].val.id = <<user_id>> /\ db[i].val.email = email

\* EmailConflict as it would be if update_user reused the check of create_user
EmailConflict_AnyRecord(db, user_id, email) ==
    \E i \in 1..Len(db) : db[i].val.email = email

\* the scan of update_user for another user that has the new email
EmailConflict(db, user_id, email) ==
    /\ email # DictGet(db, user_id).email
    /\ \E i \in 1..Len(db) : db[i].val.id # <<user_id>> /\ db[i].val.email = email

\* update_user as it would be without the assignment user_update.id = user_id
update_user_KeepBodyId(srv, db, ctr, t, user_id, body) ==
    IF ~ValidUserId(srv, user_id) \/ ~ValidUserBody(body)
    THEN Result(db, ctr, RequestValidationError("update_user"))
    ELSE IF ~DictHas(db, user_id)
    THEN Result(db, ctr, HTTPException("update_user", 404, "User not found"))
    ELSE IF EmailConflict(db, user_id, body.email)
    THEN Result(db, ctr, HTTPException("update_user", 400, "Email already registered"))
    ELSE LET user_update == ParseUser(body)
             id == IF srv = Enhanced THEN <<user_id>> ELSE user_update.id
         IN  Result(DictSet(db, user_id, user_update), ctr,
                    UserResponseOrError("update_user", 200, id, user_update, t))

\* PUT /users/{user_id}
update_user(srv, db, ctr, t, user_id, body) ==
    IF ~ValidUserId(srv, user_id) \/ ~ValidUserBody(body)
    THEN Result(db, ctr, RequestValidationError("update_user"))
    ELSE IF ~DictHas(db, user_id)
    THEN Result(db, ctr, HTTPException("update_user", 404, "User not found"))
    ELSE IF EmailConflict(db, user_id, body.email)
    THEN Result(db, ctr, HTTPException("update_user", 400, "Email already registered"))
    ELSE LET user_update == [ParseUser(body) EXCEPT !.id = <<user_id>>]
             id == IF srv = Enhanced THEN <<user_id>> ELSE user_update.id
         IN  Result(DictSet(db, user_id, user_update), ctr,
                    UserResponseOrError("update_user", 200, id, user_update, t))

\* delete_user as it would be without the statement del users_db[user_id]
delete_user_NoDel(srv, db, ctr, user_id) ==
    IF ~ValidUserId(srv, user_id)
    THEN Result(db, ctr, RequestValidationError("delete_user"))
    ELSE IF ~DictHas(db, user_id)
    THEN Result(db, ctr, HTTPException("delete_user", 404, "User not found"))
    ELSE Result(db, ctr, Ok("delete_user", 204, <<>>))

\* DELETE /users/{user_id}
delete_user(srv, db, ctr, user_id) ==
    IF ~ValidUserId(srv, user_id)
    THEN Result(db, ctr, RequestValidationError("delete_user"))
    ELSE IF ~DictHas(db, user_id)
    THEN Result(db, ctr, HTTPException("delete_user", 404, "User not found"))
    ELSE Result(DictDel(db, user_id), ctr, Ok("delete_user", 204, <<>>))

\* get_analytics as it would be if the total were read off user_counter
get_analytics_FromCounter(db, ctr, t) ==
    LET total_users  == ctr - 1
        active_users == Cardinality({i \in 1..Len(db) : db[i].val.is_active})
    IN  Result(db, ctr,
               Ok("get_analytics", 200,
                  <<[total_users |-> total_users, active_users |-> active_users,
                     inactive_users |-> total_users - active_users,
                     timestamp |-> t]>>))

\* GET /analytics
get_analytics(db, ctr, t) ==
    LET total_users  == Len(db)
        active_users == Cardinality({i \in 1..Len(db) : db[i].val.is_active})
    IN  Result(db, ctr,
               Ok("get_analytics", 200,
                  <<[total_users |-> total_users, active_users |-> active_users,
                     inactive_users |-> total_users - active_users,
                     timestamp |-> t]>>))

----------------------------------------------------------------------------
(* The user-management service as a state machine: one action per route.   *)
(* The handlers are coroutines without an await, so the event loop runs    *)
(* each of them to its end before it starts the next.                      *)

UserIds == 0..MaxCounter
Skips == -2..MaxSkip
Limits == (-1..MaxLimit) \cup {LimitMax, LimitMax + 1}

NoResponse == [op |-> "none", status |-> 0, detail |-> "", body |-> <<>>]

\* the user-management service as its module is loaded
UsersInit(srvs) ==
    /\ server \in srvs
    /\ users_db = <<>>
    /\ user_counter = 1
    /\ now = 0
    /\ resp = NoResponse
    /\ issued = <<>>
    /\ deleted = {}

Workers == {1, 2}

\* a worker's frame: raced and dels are history (the add_user requests with the same
\* email, and the userIds of the delete_user requests, in flight since it took up its own)
IdleThread ==
    [pc |-> "idle", op |-> "none", user |-> <<>>, userId |-> "", list |-> 0, idx |-> 0,
     acc |-> <<>>, status |-> 0, found |-> <<>>, raced |-> FALSE, dels |-> {}]

\* the inventory service as its module is loaded: users_db names an empty list
InventoryInit ==
    /\ inv_heap = << <<>> >>
    /\ inv_users_db = 1
    /\ inv_thread = [w \in Workers |-> IdleThread]
    /\ inv_started = 0

\* a worker that is not in add_inventory
IdleAdder == [pc |-> "idle", item |-> <<>>]

\* inventory_api as its module is loaded: no items
ItemsInit ==
    /\ inventory_db = <<>>
    /\ inv_resp = NoResponse
    /\ item_thread = [w \in Workers |-> IdleAdder]

\* the second server as its module is loaded
MirrorInit ==
    /\ e_users_db = <<>>
    /\ e_user_counter = 1
    /\ e_resp = NoResponse

TestSteps ==
    <<"health_check", "root_endpoint", "create_user", "get_users", "get_user",
      "update_user", "analytics", "delete_user">>

\* test_server.py before run_all_tests is called
TestInit ==
    /\ t_pc = 0
    /\ tests_passed = 0
    /\ t_user_id = <<>>
    /\ t_outcome = [i \in 1..Len(TestSteps) |-> "pending"]
    /\ success = <<>>
    /\ exit_code = <<>>

Init ==
    /\ UsersInit(Servers)
    /\ InventoryInit
    /\ ItemsInit
    /\ MirrorInit
    /\ TestInit

\* the globals and the response a handler leaves
Serve(r) ==
    /\ users_db' = r.db
    /\ user_counter' = r.counter
    /\ resp' = r.resp
    /\ UNCHANGED <<server, now>>
    /\ UNCHANGED <<ivars, svars, evars, tvars>>

PostUsers(body) ==
    LET r == create_user(server, users_db, user_counter, now, body)
    IN  /\ r.counter <= MaxCounter
        /\ Serve(r)
        /\ issued' = IF r.resp.status = 201
                     THEN Append(issued, r.resp.body[1].id)
                     ELSE issued
        /\ UNCHANGED deleted

GetUsers(skip, limit) ==
    /\ Serve(get_users(server, users_db, user_counter, now, skip, limit))
    /\ UNCHANGED <<issued, deleted>>

GetUser(user_id) ==
    /\ Serve(get_user(server, users_db, user_counter, now, user_id))
    /\ UNCHANGED <<issued, deleted>>

PutUser(user_id, body) ==
    /\ Serve(update_user(server, users_db, user_counter, now, user_id, body))
    /\ UNCHANGED <<issued, deleted>>

DeleteUser(user_id) ==
    LET r == delete_user(server, users_db, user_counter, user_id)
    IN  /\ Serve(r)
        /\ deleted' = IF r.resp.status = 204 THEN deleted \cup {user_id} ELSE deleted
        /\ UNCHANGED issued

GetAnalytics ==
    /\ Serve(get_analytics(users_db, user_counter, now))
    /\ UNCHANGED <<issued, deleted>>

\* time passes between two requests
Tick ==
    /\ now < MaxTime
    /\ now' = now + 1
    /\ UNCHANGED <<server, users_db, user_counter, resp, issued, deleted>>
    /\ UNCHANGED <<ivars, svars, evars, tvars>>

Next ==
    \/ \E body \in UserBodies : PostUsers(body)
    \/ \E skip \in Skips, limit \in Limits : GetUsers(skip, limit)
    \/ \E user_id \in UserIds : GetUser(user_id)
    \/ \E user_id \in UserIds, body \in UserBodies : PutUser(user_id, body)
    \/ \E user_id \in UserIds : DeleteUser(user_id)
    \/ GetAnalytics
    \/ Tick

Spec == Init /\ [][Next]_vars

----------------------------------------------------------------------------
(* The inventory service (inventory_api.py).  Its handlers are plain        *)
(* functions, which FastAPI runs on worker threads: the interpreter may     *)
(* switch threads between any two bytecodes, so a handler is a sequence of  *)
(* steps, one per access to the shared list.  A list object is known by its *)
(* place in inv_heap; inv_users_db is the object the global names.          *)

InvEmails == {"a@x.com", "b@x.com"}
InvUsernames == {"alice", "b@x.com"}

\* the bodies of POST /users of inventory_api.py, all with a well-formed email
InvUsers == {[username |-> n, email |-> e] : n \in InvUsernames, e \in InvEmails}

\* the userId values of DELETE /users
InvUserIds == {"alice", "b@x.com"}

\* a worker takes up POST /users: `for u in users_db` makes its iterator
AddUserStart(w, user) ==
    /\ inv_thread[w].pc = "idle"
    /\ inv_started < MaxRequests
    /\ inv_started' = inv_started + 1
    /\ inv_thread' =
         [v \in Workers |->
            IF v = w
            THEN [IdleThread EXCEPT !.pc = "add_scan", !.op = "add_user", !.user = <<user>>,
                                    !.list = inv_users_db,
                                    !.dels = {inv_thread[x].userId :
                                                x \in {y \in Workers \ {w} :
                                                          /\ inv_thread[y].pc # "idle"
                                                          /\ inv_thread[y].op = "delete_user"}},
                                    !.raced = \E x \in Workers \ {w} :
                                                 /\ inv_thread[x].pc # "idle"
                                                 /\ inv_thread[x].op = "add_user"
                                                 /\ inv_thread[x].user[1].email = user.email]
            ELSE IF /\ inv_thread[v].pc # "idle"
                    /\ inv_thread[v].op = "add_user"
                    /\ inv_thread[v].user[1].email = user.email
                 THEN [inv_thread[v] EXCEPT !.raced = TRUE]
                 ELSE inv_thread[v]]
    /\ UNCHANGED <<inv_heap, inv_users_db>>
    /\ UNCHANGED <<uvars, svars, evars, tvars>>

\* one turn of `for u in users_db: if u.email == user.email: raise HTTPException(400)`
AddUserScan(w) ==
    LET t == inv_thread[w]
        l == inv_heap[t.list]
    IN  /\ t.pc = "add_scan"
        /\ inv_thread' =
             [inv_thread EXCEPT ![w] =
                IF t.idx >= Len(l) THEN [t EXCEPT !.pc = "add_load"]
                ELSE IF l[t.idx + 1].email = t.user[1].email
                THEN [t EXCEPT !.pc = "idle", !.status = 400]
                ELSE [t EXCEPT !.idx = t.idx + 1]]
        /\ UNCHANGED <<inv_heap, inv_users_db, inv_started>>
        /\ UNCHANGED <<uvars, svars, evars, tvars>>

\* users_db.append(user), first half: the global users_db is read
AddUserLoad(w) ==
    LET t == inv_thread[w]
    IN  /\ t.pc = "add_load"
        /\ inv_thread' = [inv_thread EXCEPT ![w] = [t EXCEPT !.pc = "add_append",
                                                              !.list = inv_users_db]]
        /\ UNCHANGED <<inv_heap, inv_users_db, inv_started>>
        /\ UNCHANGED <<uvars, svars, evars, tvars>>

\* users_db.append(user), second half: the list that was read grows; 201 is returned
AddUserAppend(w) ==
    LET t == inv_thread[w]
    IN  /\ t.pc = "add_append"
        /\ inv_heap' = [inv_heap EXCEPT ![t.list] = Append(@, t.user[1])]
        /\ inv_thread' = [inv_thread EXCEPT ![w] = [t EXCEPT !.pc = "idle", !.status = 201]]
        /\ UNCHANGED <<inv_users_db, inv_started>>
        /\ UNCHANGED <<uvars, svars, evars, tvars>>

\* a worker takes up DELETE /users: the comprehension makes its iterator over users_db
DeleteUserStart(w, userId) ==
    /\ inv_thread[w].pc = "idle"
    /\ inv_started < MaxRequests
    /\ inv_started' = inv_started + 1
    /\ inv_thread' =
         [v \in Workers |->
            IF v = w
            THEN [IdleThread EXCEPT !.pc = "del_scan", !.op = "delete_user",
                                    !.userId = userId, !.list = inv_users_db]
            ELSE IF inv_thread[v].op = "add_user"
                 THEN [inv_thread[v] EXCEPT !.dels = @ \cup {userId}]
                 ELSE inv_thread[v]]
    /\ UNCHANGED <<inv_heap, inv_users_db>>
    /\ UNCHANGED <<uvars, svars, evars, tvars>>

\* one turn of [u for u in users_db if u.username != userId and u.email != userId]
DeleteUserScan(w) ==
    LET t == inv_thread[w]
        l == inv_heap[t.list]
    IN  /\ t.pc = "del_scan"
        /\ inv_thread' =
             [inv_thread EXCEPT ![w] =
                IF t.idx >= Len(l) THEN [t EXCEPT !.pc = "del_store"]
                ELSE IF l[t.idx + 1].username # t.userId /\ l[t.idx + 1].email # t.userId
                THEN [t EXCEPT !.idx = t.idx + 1, !.acc = Append(@, l[t.idx + 1])]
                ELSE [t EXCEPT !.idx = t.idx + 1]]
        /\ UNCHANGED <<inv_heap, inv_users_db, inv_started>>
        /\ UNCHANGED <<uvars, svars, evars, tvars>>

\* users_db = <the new list>: the global names a new object; 204 is returned
DeleteUserStore(w) ==
    LET t == inv_thread[w]
    IN  /\ t.pc = "del_store"
        /\ inv_heap' = Append(inv_heap, t.acc)
        /\ inv_users_db' = Len(inv_heap) + 1
        /\ inv_thread' = [inv_thread EXCEPT ![w] = [t EXCEPT !.pc = "idle", !.status = 204]]
        /\ UNCHANGED inv_started
        /\ UNCHANGED <<uvars, svars, evars, tvars>>

\* user.username == userId or user.email == userId
InfoMatches_EmailOnly(user, userId) == user.email = userId

InfoMatches(user, userId) == user.username = userId \/ user.email = userId

\* GET /users/{userId} run on the list l without a switch of threads
get_user_info(l, userId) ==
    IF \E i \in 1..Len(l) : InfoMatches(l[i], userId)
    THEN [status |-> 200,
          found |-> <<l[CHOOSE i \in 1..Len(l) :
                          /\ InfoMatches(l[i], userId)
                          /\ \A j \in 1..(i - 1) : ~InfoMatches(l[j], userId)]>>]
    ELSE [status |-> 404, found |-> <<>>]

\* a worker takes up GET /users/{userId}: `for user in users_db` makes its iterator
GetUserInfoStart(w, userId) ==
    /\ inv_thread[w].pc = "idle"
    /\ inv_started < MaxRequests
    /\ inv_started' = inv_started + 1
    /\ inv_thread' = [inv_thread EXCEPT ![w] =
                        [IdleThread EXCEPT !.pc = "info_scan", !.op = "get_user_info",
                                           !.userId = userId, !.list = inv_users_db]]
    /\ UNCHANGED <<inv_heap, inv_users_db>>
    /\ UNCHANGED <<uvars, svars, evars, tvars>>

\* one turn of `for user in users_db: if ...: return user`, or the 404 after the loop
GetUserInfoScan(w) ==
    LET t == inv_thread[w]
        l == inv_heap[t.list]
    IN  /\ t.pc = "info_scan"
        /\ inv_thread' =
             [inv_thread EXCEPT ![w] =
                IF t.idx >= Len(l) THEN [t EXCEPT !.pc = "idle", !.status = 404]
                ELSE IF InfoMatches(l[t.idx + 1], t.userId)
                THEN [t EXCEPT !.pc = "idle", !.status = 200, !.found = <<l[t.idx + 1]>>]
                ELSE [t EXCEPT !.idx = t.idx + 1]]
        /\ UNCHANGED <<inv_heap, inv_users_db, inv_started>>
        /\ UNCHANGED <<uvars, svars, evars, tvars>>

InvInit ==
    /\ UsersInit({Basic})
    /\ InventoryInit
    /\ ItemsInit
    /\ MirrorInit
    /\ TestInit

InvNext ==
    \/ \E w \in Workers, user \in InvUsers : AddUserStart(w, user)
    \/ \E w \in Workers : AddUserScan(w)
    \/ \E w \in Workers : AddUserLoad(w)
    \/ \E w \in Workers : AddUserAppend(w)
    \/ \E w \in Workers, userId \in InvUserIds : DeleteUserStart(w, userId)
    \/ \E w \in Workers : DeleteUserScan(w)
    \/ \E w \in Workers : DeleteUserStore(w)
    \/ \E w \in Workers, userId \in InvUserIds : GetUserInfoStart(w, userId)
    \/ \E w \in Workers : GetUserInfoScan(w)

InvSpec == InvInit /\ [][InvNext]_vars

----------------------------------------------------------------------------
(* The inventory items of inventory_api.py.  A str is the sequence of its   *)
(* characters.  An item is its id and its name: no handler reads            *)
(* releaseDate or manufacturer.  The handlers are plain functions run on    *)
(* worker threads with no lock.  Nothing removes an item, so the loop of    *)
(* add_inventory answers as one look at inventory_db at the moment it ends  *)
(* does: taking the request up and the loop are one step, and the append is *)
(* a later step of its own, so that other requests run in between.          *)
(* search_inventory only reads the list, and its comprehension answers as   *)
(* one look at the list at the moment it ends does: it is one step.         *)

\* str.lower() of one character, on the letters the names are written in
LowerChar(c) == CASE c = "W" -> "w" [] c = "I" -> "i" [] c = "X" -> "x" [] OTHER -> c

\* str.lower()
lower(str) == [i \in 1..Len(str) |-> LowerChar(str[i])]

\* sub in str
StrIn(sub, str) ==
    \E k \in 0..(Len(str) - Len(sub)) : SubSeq(str, k + 1, k + Len(sub)) = sub

ItemNames == {<<"x", "W", "i">>, <<"x">>}

\* the ids stand for UUIDs
ItemIds == {1, 2, 3}

Items == [id : ItemIds, name : ItemNames]

\* searchString: None, "", "WI" and "X"
SearchStrings == {<<>>, << <<>> >>, << <<"W", "I">> >>, << <<"X">> >>}

\* skip and limit of GET /inventory: any int, 0 and 50 when the query omits them
ItemSkips == {-1, 0, 1}
ItemLimits == {0, 1, 50}

\* GET /inventory, with the slice taken before the names are compared
search_inventory_SliceFirst(db, searchString, skip, limit) ==
    LET page == PySlice(db, skip, skip + limit)
        results ==
            IF searchString # <<>> /\ searchString[1] # <<>>
            THEN SelectSeq(page, LAMBDA item :
                                    StrIn(lower(searchString[1]), lower(item.name)))
            ELSE page
    IN  [db |-> db, resp |-> Ok("search_inventory", 200, results)]

\* GET /inventory: `if searchString:` is false for None and for ""
search_inventory(db, searchString, skip, limit) ==
    LET results ==
            IF searchString # <<>> /\ searchString[1] # <<>>
            THEN SelectSeq(db, LAMBDA item :
                                  StrIn(lower(searchString[1]), lower(item.name)))
            ELSE db
    IN  [db |-> db,
         resp |-> Ok("search_inventory", 200, PySlice(results, skip, skip + limit))]

\* a worker takes up POST /inventory and runs
\* for inv in inventory_db: if inv.id == item.id: raise HTTPException(409)
AddInventoryScan(w, item) ==
    /\ item_thread[w].pc = "idle"
    /\ Len(inventory_db) + Cardinality({v \in Workers : item_thread[v].pc # "idle"})
          < MaxItems
    /\ IF \E i \in 1..Len(inventory_db) : inventory_db[i].id = item.id
       THEN /\ inv_resp' = HTTPException("add_inventory", 409,
                                         "An existing item already exists")
            /\ UNCHANGED item_thread
       ELSE /\ item_thread' = [item_thread EXCEPT ![w] =
                                 [pc |-> "add_append", item |-> <<item>>]]
            /\ UNCHANGED inv_resp
    /\ UNCHANGED inventory_db
    /\ UNCHANGED <<uvars, ivars, evars, tvars>>

\* inventory_db.append(item); return {"message": "item created"}
AddInventoryAppend(w) ==
    /\ item_thread[w].pc = "add_append"
    /\ inventory_db' = Append(inventory_db, item_thread[w].item[1])
    /\ inv_resp' = Ok("add_inventory", 201, <<[message |-> "item created"]>>)
    /\ item_thread' = [item_thread EXCEPT ![w] = IdleAdder]
    /\ UNCHANGED <<uvars, ivars, evars, tvars>>

SearchInventory(searchString, skip, limit) ==
    LET r == search_inventory(inventory_db, searchString, skip, limit)
    IN  /\ inventory_db' = r.db
        /\ inv_resp' = r.resp
        /\ UNCHANGED item_thread
        /\ UNCHANGED <<uvars, ivars, evars, tvars>>

ItemInit ==
    /\ UsersInit({Basic})
    /\ InventoryInit
    /\ ItemsInit
    /\ MirrorInit
    /\ TestInit

ItemNext ==
    \/ \E w \in Workers, item \in Items : AddInventoryScan(w, item)
    \/ \E w \in Workers : AddInventoryAppend(w)
    \/ \E searchString \in SearchStrings, skip \in ItemSkips, limit \in ItemLimits :
          SearchInventory(searchString, skip, limit)

ItemSpec == ItemInit /\ [][ItemNext]_vars

----------------------------------------------------------------------------
(* The smoke-test script test_server.py.  t_pc = 0 before run_all_tests is  *)
(* called, i in 1..8 when step i of TestSteps is the next to run, 9 when     *)
(* the steps are over, 10 when run_all_tests has returned and 11 when the    *)
(* script has exited, by exit() or by an exception that nothing catches.     *)
(* Whether a request of a step succeeds is up to the server under test, so   *)
(* each step may pass or fail.                                               *)

\* the steps of the form `if test_x(): tests_passed += 1`
PlainSteps == {1, 2, 4, 7}
\* the steps of the form `if user_id and test_x(user_id): tests_passed += 1`
UserSteps == {5, 6, 8}
\* what test_create_user may return: None or the id of the 201 response
CreatedIds == {<<>>, <<1>>, <<2>>}

\* __main__: sleep, then call run_all_tests, which sets tests_passed = 0
StartTests ==
    /\ t_pc = 0
    /\ t_pc' = 1
    /\ tests_passed' = 0
    /\ UNCHANGED <<t_user_id, t_outcome, success, exit_code>>
    /\ UNCHANGED <<uvars, ivars, svars, evars>>

\* if test_x(): tests_passed += 1
PlainStep(ok) ==
    /\ t_pc \in PlainSteps
    /\ t_pc' = t_pc + 1
    /\ tests_passed' = IF ok THEN tests_passed + 1 ELSE tests_passed
    /\ t_outcome' = [t_outcome EXCEPT ![t_pc] = IF ok THEN "passed" ELSE "failed"]
    /\ UNCHANGED <<t_user_id, success, exit_code>>
    /\ UNCHANGED <<uvars, ivars, svars, evars>>

\* test_health_check catches requests.exceptions.ConnectionError only: a reply that
\* is not JSON, or has no 'status', raises through run_all_tests, nothing is
\* returned and the interpreter exits with status 1
HealthCheckRaises ==
    /\ t_pc = 1
    /\ t_pc' = Len(TestSteps) + 3
    /\ t_outcome' = [t_outcome EXCEPT ![1] = "raised"]
    /\ exit_code' = <<1>>
    /\ UNCHANGED <<tests_passed, t_user_id, success>>
    /\ UNCHANGED <<uvars, ivars, svars, evars>>

\* user_id = test_create_user(); if user_id: tests_passed += 1
CreateStep(id) ==
    /\ t_pc = 3
    /\ t_pc' = 4
    /\ t_user_id' = id
    /\ tests_passed' = IF id # <<>> THEN tests_passed + 1 ELSE tests_passed
    /\ t_outcome' = [t_outcome EXCEPT ![3] = IF id # <<>> THEN "passed" ELSE "failed"]
    /\ UNCHANGED <<success, exit_code>>
    /\ UNCHANGED <<uvars, ivars, svars, evars>>

\* if user_id and test_x(user_id): tests_passed += 1
UserStep(ok) ==
    /\ t_pc \in UserSteps
    /\ t_pc' = t_pc + 1
    /\ tests_passed' = IF t_user_id # <<>> /\ ok THEN tests_passed + 1 ELSE tests_passed
    /\ t_outcome' = [t_outcome EXCEPT ![t_pc] = IF t_user_id = <<>> THEN "not run"
                                                ELSE IF ok THEN "passed" ELSE "failed"]
    /\ UNCHANGED <<t_user_id, success, exit_code>>
    /\ UNCHANGED <<uvars, ivars, svars, evars>>

\* return tests_passed == total_tests
ReturnTests ==
    /\ t_pc = Len(TestSteps) + 1
    /\ t_pc' = t_pc + 1
    /\ success' = <<tests_passed = total_tests>>
    /\ UNCHANGED <<tests_passed, t_user_id, t_outcome, exit_code>>
    /\ UNCHANGED <<uvars, ivars, svars, evars>>

\* exit(0 if success else 1)
ExitTests ==
    /\ t_pc = Len(TestSteps) + 2
    /\ t_pc' = t_pc + 1
    /\ exit_code' = <<IF success[1] THEN 0 ELSE 1>>
    /\ UNCHANGED <<tests_passed, t_user_id, t_outcome, success>>
    /\ UNCHANGED <<uvars, ivars, svars, evars>>

TestSpecInit ==
    /\ UsersInit({Basic})
    /\ InventoryInit
    /\ ItemsInit
    /\ MirrorInit
    /\ TestInit

TestNext ==
    \/ StartTests
    \/ \E ok \in BOOLEAN : PlainStep(ok)
    \/ HealthCheckRaises
    \/ \E id \in CreatedIds : CreateStep(id)
    \/ \E ok \in BOOLEAN : UserStep(ok)
    \/ ReturnTests
    \/ ExitTests

TestSpec == TestSpecInit /\ [][TestNext]_vars

----------------------------------------------------------------------------
(* web_server.py and web_server_enhanced.py side by side: both start from   *)
(* empty stores and every request is given to both.  users_db, user_counter *)
(* and resp are those of web_server.py; e_users_db, e_user_counter and      *)
(* e_resp are those of web_server_enhanced.py.  The requests are the        *)
(* in-range ones: ids above 0, skip >= 0 and 1 <= limit <= 1000.            *)

InRangeIds == {user_id \in UserIds : user_id > 0}
InRangeSkips == {skip \in Skips : skip >= 0}
InRangeLimits == {limit \in Limits : limit >= LimitMin /\ limit <= LimitMax}

\* what the two handlers leave: r in web_server.py, e in web_server_enhanced.py
Lockstep(r, e) ==
    /\ users_db' = r.db
    /\ user_counter' = r.counter
    /\ resp' = r.resp
    /\ e_users_db' = e.db
    /\ e_user_counter' = e.counter
    /\ e_resp' = e.resp
    /\ UNCHANGED <<server, now, issued, deleted>>
    /\ UNCHANGED <<ivars, svars, tvars>>

BothPostUsers(body) ==
    LET r == create_user(Basic, users_db, user_counter, now, body)
        e == create_user(Enhanced, e_users_db, e_user_counter, now, body)
    IN  /\ r.counter <= MaxCounter
        /\ e.counter <= MaxCounter
        /\ Lockstep(r, e)

BothGetUsers(skip, limit) ==
    LET r == get_users(Basic, users_db, user_counter, now, skip, limit)
        e == get_users(Enhanced, e_users_db, e_user_counter, now, skip, limit)
    IN  /\ Lockstep(r, e)

BothGetUser(user_id) ==
    LET r == get_user(Basic, users_db, user_counter, now, user_id)
        e == get_user(Enhanced, e_users_db, e_user_counter, now, user_id)
    IN  /\ Lockstep(r, e)

BothPutUser(user_id, body) ==
    LET r == update_user(Basic, users_db, user_counter, now, user_id, body)
        e == update_user(Enhanced, e_users_db, e_user_counter, now, user_id, body)
    IN  /\ Lockstep(r, e)

BothDeleteUser(user_id) ==
    LET r == delete_user(Basic, users_db, user_counter, user_id)
        e == delete_user(Enhanced, e_users_db, e_user_counter, user_id)
    IN  /\ Lockstep(r, e)

BothGetAnalytics ==
    LET r == get_analytics(users_db, user_counter, now)
        e == get_analytics(e_users_db, e_user_counter, now)
    IN  /\ Lockstep(r, e)

PairInit ==
    /\ UsersInit({Basic})
    /\ InventoryInit
    /\ ItemsInit
    /\ MirrorInit
    /\ TestInit

PairNext ==
    \/ \E body \in UserBodies : BothPostUsers(body)
    \/ \E skip \in InRangeSkips, limit \in InRangeLimits : BothGetUsers(skip, limit)
    \/ \E user_id \in InRangeIds : BothGetUser(user_id)
    \/ \E user_id \in InRangeIds, body \in UserBodies : BothPutUser(user_id, body)
    \/ \E user_id \in InRangeIds : BothDeleteUser(user_id)
    \/ BothGetAnalytics

PairSpec == PairInit /\ [][PairNext]_vars

----------------------------------------------------------------------------
(* Properties of the user-management service. *)

LiveIds == DictKeys(users_db)

\* the bodies that reach a handler: those that pass the validation of User
ValidBodies == {b \in UserBodies : ValidUserBody(b)}

\* some live record other than `except` has this email
EmailOfAnother(email, except) ==
    \E k \in LiveIds \ {except} : DictGet(users_db, k).email = email

\* C1: no two live records of users_db have the same email, whatever
\* create_user, update_user and delete_user requests were served.
C1_UniqueEmail ==
    \A i, j \in 1..Len(users_db) :
        i # j => users_db[i].val.email # users_db[j].val.email

\* two records are live and the last request changed one of them
C1_Witness ==
    /\ Len(users_db) >= 2
    /\ resp.op = "update_user"
    /\ resp.status = 200

\* C3: the ids of the successful create_user calls start at 1 and strictly
\* increase; no id is assigned twice, also after its record was deleted.
C3_IdsIncrease ==
    /\ Len(issued) >= 1 => issued[1] = 1
    /\ \A i, j \in 1..Len(issued) : i < j => issued[i] < issued[j]

\* a create_user succeeded after a record had been deleted
C3_Witness ==
    /\ deleted # {}
    /\ Len(issued) >= 2
    /\ resp.op = "create_user"
    /\ resp.status = 201
    /\ issued[Len(issued)] = resp.body[1].id

\* C4: when create_user succeeds for a valid candidate, get_user on the
\* returned id, run right after it, succeeds and returns the name, email,
\* age and is_active of the candidate and the id that create_user returned.
C4_CreateThenGet ==
    \A body \in ValidBodies :
        LET c == create_user(server, users_db, user_counter, now, body)
        IN  c.resp.status = 201 =>
              LET id == c.resp.body[1].id
                  g  == get_user(server, c.db, c.counter, now, id).resp
                  candidate == ParseUser(body)
              IN  /\ g.status = 200
                  /\ g.body[1].id = id
                  /\ g.body[1].name = candidate.name
                  /\ g.body[1].email = candidate.email
                  /\ g.body[1].age = candidate.age
                  /\ g.body[1].is_active = candidate.is_active

\* create_user has just succeeded next to an older record, and get_user finds the new one
C4_Witness ==
    /\ resp.op = "create_user"
    /\ resp.status = 201
    /\ Len(users_db) >= 2
    /\ get_user(server, users_db, user_counter, now, resp.body[1].id).resp.status = 200

\* C5 as claimed: while a live record has email e, create_user of any
\* candidate with email e ends in 400 "Email already registered", whatever
\* its other fields.
C5_AnyCandidateRejected ==
    \A body \in UserBodies :
        (\E k \in LiveIds : DictGet(users_db, k).email = body.email) =>
            LET c == create_user(server, users_db, user_counter, now, body)
            IN  /\ c.resp.status = 400
                /\ c.resp.detail = "Email already registered"

\* C5 as amended: while a live record has email e, create_user of a candidate
\* with email e ends in 400 "Email already registered" when the candidate
\* meets the Field constraints of User, whatever its other fields, and in 422
\* when it does not.
C5_DuplicateRejected ==
    \A body \in UserBodies :
        (\E k \in LiveIds : DictGet(users_db, k).email = body.email) =>
            LET c == create_user(server, users_db, user_counter, now, body)
            IN  IF body \in ValidBodies
                THEN /\ c.resp.status = 400
                     /\ c.resp.detail = "Email already registered"
                ELSE c.resp.status = 422

\* a create_user was rejected as a duplicate
C5_Witness ==
    /\ resp.op = "create_user"
    /\ resp.status = 400
    /\ users_db # <<>>

\* C6 as claimed: once delete_user(id) returned 204, get_user(id),
\* update_user(id, ...) and delete_user(id) return 404 from then on, whatever
\* happens in between.
C6_AlwaysNotFound ==
    \A id \in deleted :
        /\ get_user(server, users_db, user_counter, now, id).resp.status = 404
        /\ delete_user(server, users_db, user_counter, id).resp.status = 404
        /\ \A body \in UserBodies :
             update_user(server, users_db, user_counter, now, id, body).resp.status = 404

\* C6 as amended: once delete_user(id) returned 204, get_user(id) and
\* delete_user(id) return 404 from then on, and update_user(id, candidate)
\* returns 404 when the candidate meets the Field constraints of User and 422
\* when it does not, whatever happens in between.
C6_DeletedStaysDeleted ==
    \A id \in deleted :
        /\ get_user(server, users_db, user_counter, now, id).resp.status = 404
        /\ delete_user(server, users_db, user_counter, id).resp.status = 404
        /\ \A body \in UserBodies :
             update_user(server, users_db, user_counter, now, id, body).resp.status
                = IF body \in ValidBodies THEN 404 ELSE 422

\* a record was deleted, and later requests created and changed other records
C6_Witness ==
    /\ deleted # {}
    /\ users_db # <<>>
    /\ resp.op = "update_user"
    /\ resp.status = 200

\* C7 as claimed: update_user of a live id ends in 400 exactly when the
\* candidate's email is the email of a different live record; with the
\* record's own email, or one no live record has, it succeeds.
C7_AnyCandidateConflict ==
    \A id \in LiveIds, body \in UserBodies :
        LET u == update_user(server, users_db, user_counter, now, id, body).resp
        IN  /\ u.status = 400 <=> EmailOfAnother(body.email, id)
            /\ ~EmailOfAnother(body.email, id) => u.status = 200

\* C7 as amended: update_user of a live id with a candidate that meets the
\* Field constraints of User ends in 400 exactly when the candidate's email is
\* the email of a different live record, and succeeds with the record's own
\* email or one no live record has; a candidate that does not meet the
\* constraints ends in 422 whatever its email.
C7_UpdateConflict ==
    \A id \in LiveIds, body \in UserBodies :
        LET u == update_user(server, users_db, user_counter, now, id, body).resp
        IN  IF body \in ValidBodies
            THEN /\ u.status = 400 <=> EmailOfAnother(body.email, id)
                 /\ ~EmailOfAnother(body.email, id) => u.status = 200
            ELSE u.status = 422

\* an update_user was rejected for the email of another record
C7_Witness ==
    /\ resp.op = "update_user"
    /\ resp.status = 400
    /\ Len(users_db) >= 2

\* C8: every key k of users_db maps to a record whose id is k, and
\* 1 <= k < user_counter: an id sent in a body never becomes the id of a
\* stored record, and update_user does not change the id of a record.
C8_IdsAreKeys ==
    \A i \in 1..Len(users_db) :
        /\ users_db[i].val.id = <<users_db[i].key>>
        /\ 1 <= users_db[i].key
        /\ users_db[i].key < user_counter

\* the only record was updated; the bodies include some that carry the id 2
C8_Witness ==
    /\ user_counter = 2
    /\ resp.op = "update_user"
    /\ resp.status = 200
    /\ \E body \in ValidBodies : body.id = <<2>>

\* the successful responses that carry records
CarriesRecords(r) ==
    /\ r.op \in {"create_user", "get_user", "get_users", "update_user"}
    /\ r.status \in {200, 201}

\* C9: the created_at of a record is the one its create_user response
\* carried: the get_user, get_users and update_user responses that follow the
\* create_user response carry the same created_at for that record.
C9_CreatedAtFixed ==
    [][(/\ resp.op = "create_user"
        /\ resp.status = 201
        /\ CarriesRecords(resp'))
       => \A i \in 1..Len(resp'.body) :
             resp'.body[i].id = resp.body[1].id
                => resp'.body[i].created_at = resp.body[1].created_at]_vars

\* the k-th live id in the order of creation (ids are assigned in increasing order)
KthLiveId(k) ==
    CHOOSE id \in LiveIds : Cardinality({other \in LiveIds : other < id}) = k - 1

\* get_users(skip, limit) answers with the live records in creation order,
\* without the first skip of them, min(limit, max(0, n - skip)) in all
PageInCreationOrder(skip, limit) ==
    LET g == get_users(server, users_db, user_counter, now, skip, limit).resp
        n == Len(users_db)
        count == Min(limit, Max(0, n - skip))
    IN  /\ g.status = 200
        /\ Len(g.body) = count
        /\ \A i \in 1..count :
             LET id == KthLiveId(skip + i)
                 user == DictGet(users_db, id)
             IN  /\ g.body[i].id = id
                 /\ g.body[i].name = user.name
                 /\ g.body[i].email = user.email
                 /\ g.body[i].age = user.age
                 /\ g.body[i].is_active = user.is_active

\* C10 as claimed: for all skip >= 0 and limit >= 0, get_users(skip, limit)
\* returns the page of the live records in creation order, never an error.
C10_AnyLimit ==
    \A skip \in Skips, limit \in Limits :
        (skip >= 0 /\ limit >= 0) => PageInCreationOrder(skip, limit)

\* C10 as amended: the same for all skip >= 0 and limit >= 0 in web_server.py,
\* and for all skip >= 0 and 1 <= limit <= 1000 in web_server_enhanced.py.
C10_Page ==
    \A skip \in Skips, limit \in Limits :
        (/\ skip >= 0
         /\ limit >= 0
         /\ server = Enhanced => (limit >= 1 /\ limit <= 1000))
        => PageInCreationOrder(skip, limit)

\* a page that starts after the first of two live records was served
C10_Witness ==
    /\ Len(users_db) = 2
    /\ resp.op = "get_users"
    /\ resp.status = 200
    /\ Len(resp.body) = 1
    /\ resp.body[1].id = users_db[2].key

----------------------------------------------------------------------------
(* Properties of the inventory service. *)

\* the list that the global users_db of inventory_api.py names
InvUsersDb == inv_heap[inv_users_db]

\* C2: two add_user requests with the same email that run concurrently never
\* both succeed: at most one returns 201, and users_db never holds two users
\* with that email.
C2_NoDuplicateAdd ==
    /\ \A i, j \in 1..Len(InvUsersDb) :
         i # j => InvUsersDb[i].email # InvUsersDb[j].email
    /\ ~(/\ inv_thread[1].op = "add_user" /\ inv_thread[2].op = "add_user"
         /\ inv_thread[1].raced /\ inv_thread[2].raced
         /\ inv_thread[1].user[1].email = inv_thread[2].user[1].email
         /\ inv_thread[1].status = 201 /\ inv_thread[2].status = 201)

----------------------------------------------------------------------------
(* Further properties of the user-management service. *)

\* C11: a listing returns records only for skip >= 0 and 1 <= limit <= 1000:
\* get_users with a negative skip, a limit below 1 or a limit above 1000
\* returns no records.
C11_OutOfRangeRejected ==
    \A skip \in Skips, limit \in Limits :
        (skip < 0 \/ limit < 1 \/ limit > 1000) =>
            get_users(server, users_db, user_counter, now, skip, limit).resp.body = <<>>

\* C12: get_analytics returns the number of live records as total_users, the
\* number of live records with is_active true as active_users, and
\* inactive_users = total_users - active_users >= 0; once every record that
\* was created has been deleted, total_users is 0.
C12_Analytics ==
    LET a == get_analytics(users_db, user_counter, now).resp
        active == {k \in LiveIds : DictGet(users_db, k).is_active}
    IN  /\ a.status = 200
        /\ a.body[1].total_users = Cardinality(LiveIds)
        /\ a.body[1].active_users = Cardinality(active)
        /\ a.body[1].inactive_users = a.body[1].total_users - a.body[1].active_users
        /\ a.body[1].inactive_users >= 0
        /\ (\A i \in 1..Len(issued) : issued[i] \in deleted) => a.body[1].total_users = 0

\* get_analytics answered after the only record, once created, had been deleted
C12_Witness ==
    /\ issued # <<>>
    /\ \A i \in 1..Len(issued) : issued[i] \in deleted
    /\ resp.op = "get_analytics"
    /\ resp.body[1].total_users = 0

\* C14: in web_server_enhanced.py update_user changes only the fields the
\* body provides: an update whose body omits age or is_active leaves the
\* stored age and is_active of the record as they were.
C14_OmittedFieldsKept ==
    server = Enhanced =>
        \A id \in LiveIds, body \in ValidBodies :
            LET u == update_user(server, users_db, user_counter, now, id, body)
            IN  u.resp.status = 200 =>
                  /\ body.age = <<>> =>
                       DictGet(u.db, id).age = DictGet(users_db, id).age
                  /\ body.is_active = <<>> =>
                       DictGet(u.db, id).is_active = DictGet(users_db, id).is_active

\* C15: a create_user, update_user or delete_user that ends in an error
\* leaves users_db and user_counter as they were (a rejected create takes no
\* id), and get_user, get_users and get_analytics never change them.
C15_AllOrNothing ==
    LET Same(r) == r.db = users_db /\ r.counter = user_counter
    IN  /\ \A body \in UserBodies :
             LET c == create_user(server, users_db, user_counter, now, body)
             IN  c.resp.status # 201 => Same(c)
        /\ \A id \in UserIds, body \in UserBodies :
             LET u == update_user(server, users_db, user_counter, now, id, body)
             IN  u.resp.status # 200 => Same(u)
        /\ \A id \in UserIds :
             /\ LET d == delete_user(server, users_db, user_counter, id)
                IN  d.resp.status # 204 => Same(d)
             /\ Same(get_user(server, users_db, user_counter, now, id))
        /\ \A skip \in Skips, limit \in Limits :
             Same(get_users(server, users_db, user_counter, now, skip, limit))
        /\ Same(get_analytics(users_db, user_counter, now))

\* a create_user was rejected as a duplicate and the next id is still 2
C15_Witness ==
    /\ resp.op = "create_user"
    /\ resp.status = 400
    /\ Len(users_db) = 1
    /\ user_counter = 2
    /\ issued = <<1>>

----------------------------------------------------------------------------
(* Further properties of the inventory service. *)

\* the worker has returned from a request of this kind
Returned(w, op) == inv_thread[w].op = op /\ inv_thread[w].pc = "idle"

\* C13: delete_user(userId) returns NotFound when no stored user has userId
\* as username or email, and otherwise removes the matching user and returns
\* 204: a delete_user that returned 204 has found a user to remove.
C13_DeleteNotFound ==
    \A w \in Workers :
        Returned(w, "delete_user") =>
            LET t == inv_thread[w]
            IN  /\ Len(t.acc) = t.idx => t.status = 404
                /\ t.status = 204 => Len(t.acc) < t.idx

\* the record that get_user_info(u) must answer with: the first of l that has u
\* as username or email
FirstWith(l, u) ==
    l[CHOOSE i \in 1..Len(l) :
        /\ (l[i].username = u \/ l[i].email = u)
        /\ \A j \in 1..(i - 1) : l[j].username # u /\ l[j].email # u]

\* C16 as claimed: after an add_user that returned 201 for a user with
\* username u, and with no delete_user since, get_user_info(u) returns 200
\* with a record whose username is u.
C16_InfoByUsername ==
    \A w \in Workers :
        (Returned(w, "add_user") /\ inv_thread[w].status = 201 /\ inv_thread[w].dels = {}) =>
            LET g == get_user_info(InvUsersDb, inv_thread[w].user[1].username)
            IN  g.status = 200 /\ g.found[1].username = inv_thread[w].user[1].username

\* C16 as amended: it returns 200 with the first stored record whose username
\* or email is u; the username of that record is u when no stored user has u
\* as its email.
C16_InfoAfterAdd ==
    \A w \in Workers :
        (Returned(w, "add_user") /\ inv_thread[w].status = 201 /\ inv_thread[w].dels = {}) =>
            LET u == inv_thread[w].user[1].username
                g == get_user_info(InvUsersDb, u)
            IN  /\ \E i \in 1..Len(InvUsersDb) : InvUsersDb[i] = inv_thread[w].user[1]
                /\ g.status = 200
                /\ g.found[1] = FirstWith(InvUsersDb, u)
                /\ (\A i \in 1..Len(InvUsersDb) : InvUsersDb[i].email # u)
                      => g.found[1].username = u

\* one worker has added a user and the other has then looked its username up
C16_Witness ==
    \E w, v \in Workers :
        /\ Returned(w, "add_user") /\ inv_thread[w].status = 201 /\ inv_thread[w].dels = {}
        /\ Returned(v, "get_user_info") /\ inv_thread[v].status = 200
        /\ inv_thread[v].userId = inv_thread[w].user[1].username
        /\ inv_thread[v].found[1].username = inv_thread[v].userId

\* C19: when add_user and delete_user requests run concurrently, a user whose
\* add_user returned 201 is in users_db once the requests have finished,
\* unless the userId of one of those delete_user requests is the user's
\* username or email.
C19_AddSurvivesDelete ==
    \A w \in Workers :
        (/\ Returned(w, "add_user") /\ inv_thread[w].status = 201
         /\ \A v \in Workers : inv_thread[v].pc = "idle"
         /\ \A d \in inv_thread[w].dels :
               inv_thread[w].user[1].username # d /\ inv_thread[w].user[1].email # d)
        => \E i \in 1..Len(InvUsersDb) : InvUsersDb[i] = inv_thread[w].user[1]

\* the items that a search for searchString selects: those whose name has, at
\* some place, the letters of searchString, upper or lower case alike
Selected(item, searchString) ==
    \/ searchString = <<>>
    \/ searchString[1] = <<>>
    \/ \E k \in 0..(Len(item.name) - Len(searchString[1])) :
          \A j \in 1..Len(searchString[1]) :
              LowerChar(item.name[k + j]) = LowerChar(searchString[1][j])

\* C17: for skip >= 0 and limit >= 0, search_inventory selects, in insertion
\* order, exactly the items whose name contains searchString ignoring case
\* (all items when searchString is absent or empty), then drops the first skip
\* of the selected items and returns at most limit of the rest.
C17_FilterThenPage ==
    \A searchString \in SearchStrings, skip \in ItemSkips, limit \in ItemLimits :
        (skip >= 0 /\ limit >= 0) =>
            LET r == search_inventory(inventory_db, searchString, skip, limit).resp
                M == {i \in 1..Len(inventory_db) : Selected(inventory_db[i], searchString)}
                Kth(k) == CHOOSE i \in M : Cardinality({j \in M : j <= i}) = k
            IN  /\ r.status = 200
                /\ Len(r.body) = Max(0, Min(limit, Cardinality(M) - skip))
                /\ \A k \in 1..Len(r.body) : r.body[k] = inventory_db[Kth(skip + k)]

\* a search has returned the two selected items, the item stored between them
\* not being selected
C17_Witness ==
    /\ Len(inventory_db) = 3
    /\ inventory_db[1].name = <<"x", "W", "i">>
    /\ inventory_db[2].name = <<"x">>
    /\ inventory_db[3].name = <<"x", "W", "i">>
    /\ inv_resp.op = "search_inventory"
    /\ inv_resp.body = <<inventory_db[1], inventory_db[3]>>

----------------------------------------------------------------------------
(* Properties of the smoke-test script. *)

\* C18: run_all_tests returns True, and the script exits with status 0,
\* exactly when every test step it runs passes.
C18_TrueIffAllPass ==
    t_pc = Len(TestSteps) + 3 =>
        ((success = <<TRUE>> /\ exit_code = <<0>>)
            <=> \A i \in 1..Len(TestSteps) : t_outcome[i] \notin {"failed", "raised"})

----------------------------------------------------------------------------
(* Properties of the two servers side by side. *)

\* a record of a response without its created_at
NoCreatedAt(b) == [f \in DOMAIN b \ {"created_at"} |-> b[f]]

\* a response without the created_at of its records
Outcome(r) ==
    [op |-> r.op, status |-> r.status, detail |-> r.detail,
     body |-> [i \in 1..Len(r.body) |-> NoCreatedAt(r.body[i])]]

\* C20: given the same in-range requests from empty stores, web_server.py and
\* web_server_enhanced.py return the same outcome and the same record fields
\* (created_at aside) at every step, and their users_db and user_counter stay
\* equal.
C20_Equivalent ==
    /\ Outcome(resp) = Outcome(e_resp)
    /\ users_db = e_users_db
    /\ user_counter = e_user_counter

\* both servers have created two users, deleted the first and updated the second
C20_Witness ==
    /\ DictKeys(users_db) = {2}
    /\ DictKeys(e_users_db) = {2}
    /\ resp.op = "update_user" /\ resp.status = 200
    /\ e_resp.op = "update_user" /\ e_resp.status = 200
    /\ e_resp.body[1].id = 2

====
